---- MODULE Spec2Model ----
(***************************************************************************)
(* The transaction submission pipeline of web3-eth: sendTransaction and    *)
(* sendSignedTransaction (rpc_method_wrappers), the PromiEvent handle they *)
(* return, and the collaborators they drive (gas pricing resolver, receipt *)
(* poller, confirmation watcher, RPC client).                              *)
(*                                                                         *)
(* JavaScript is single-threaded and run-to-completion: `turn` says        *)
(* whether the caller's synchronous code is running or the event loop is   *)
(* free to run a callback.  Every action below is one synchronous segment  *)
(* of code between two suspension points (await / setImmediate).           *)
(***************************************************************************)
EXTENDS Integers, Sequences, FiniteSets, TLC

VARIABLES
    turn,           \* "caller": caller code is running; "loop": event loop is free
    kind,           \* per handle: "none" | "tx" | "signed"
    transaction,    \* per handle: the argument `transaction` as the caller gave it
    options,        \* per handle: options?.ignoreGasPricing
    _transaction,   \* per handle: the local `_transaction`
    pc,             \* per handle: position of the async function
    fresh,          \* per handle: the turn that called submit is still running
    listeners,      \* per handle: tags with at least one listener registered
    syncListeners,  \* per handle: tags registered in the turn submit returned in
    emitted,        \* per handle: sequence of promiEvent.emit calls
    delivered,      \* per handle: sequence of events handed to a listener
    rpcLog,         \* per handle: sequence of RPC requests issued
    inflight,       \* per handle: the RPC request awaiting its completion
    settled,        \* per handle: state of the promise side of the PromiEvent
    uncaught,       \* per handle: rejection of the async function nobody handles
    transactionHash,\* per handle: the local `transactionHash`
    transactionReceipt, \* per handle: the local `transactionReceipt`
    attempts,       \* per handle: receipt poller attempts made
    lastSeen,       \* per handle: last block height the watcher processed
    blockHeight     \* the chain's current block number

vars == <<turn, kind, transaction, options, _transaction, pc, fresh, listeners,
          syncListeners, emitted, delivered, rpcLog, inflight, settled,
          uncaught, transactionHash, transactionReceipt, attempts, lastSeen,
          blockHeight>>

(***************************************************************************)
(* Bounds                                                                  *)
(***************************************************************************)
MaxPollAttempts == 2
MaxBlocks == 2
MaxLateOn == 1

(***************************************************************************)
(* Values.  Every scalar is a string so that any two can be compared.      *)
(***************************************************************************)
Subs == {"A", "B"}
Undef == "undefined"
None == "none"

Tags == {"sending", "sent", "transactionHash", "receipt", "confirmation", "error"}
PricingFields == {"gasPrice", "maxPriorityFeePerGas", "maxFeePerGas"}
TxFields == {"to"} \cup PricingFields

\* numbers a caller may put in a pricing field
CallerNumbers == {"1"}

\* requests a caller may submit: `to` is set, each pricing field is set or not
TxInputs ==
    { t \in [TxFields -> {Undef, "0xabc"} \cup CallerNumbers] :
         /\ t["to"] = "0xabc"
         /\ \A f \in PricingFields : t[f] # "0xabc" }

SignedInputs == {[raw |-> "0xf86c"]}

TransportErrors == {"connection refused", "intrinsic gas too low"}
TimeoutError == "TimeoutError"
WatcherErrors == {"subscription lost"}

\* FMT_NUMBER.HEX rendering of a number
Hex(n) == CASE n = "1" -> "0x1"
            [] OTHER   -> n

\* what the network quotes, already rendered in the requested HEX format
NetworkGasPrice == "0x7"
NetworkPriorityFee == "0x8"
NetworkMaxFee == "0x9"

\* the hash the node returns for the broadcast of handle s
HashOf(s) == CASE s = "A" -> "0xdeadA"
               [] OTHER   -> "0xdeadB"

\* a string where a transaction or a receipt may stand as well: an event's
\* payload, a request's parameter
Text(x) == [value |-> x]

\* the transaction of a handle nothing was submitted on
NoTransaction == [none |-> None]

Event(tag, payload) == [tag |-> tag, payload |-> payload]
Request(method, params) == [method |-> method, params |-> params]
NoRequest == Request(None, <<>>)
NullReceipt == [transactionHash |-> None, blockNumber |-> -1, status |-> None]
Pending == [state |-> "pending", receipt |-> NullReceipt, error |-> None]

\* receipts the node may answer a query for hash h with, once the
\* transaction is included in the current head block
ReceiptsFor(h) ==
    { [transactionHash |-> h, blockNumber |-> blockHeight, status |-> st] :
        st \in {"success", "failed"} }

TagsOf(seq) == { seq[i].tag : i \in DOMAIN seq }
Methods(seq) == { seq[i].method : i \in DOMAIN seq }

(***************************************************************************)
(* Collaborators that the pipeline calls                                   *)
(***************************************************************************)
\* formatTransaction(transaction, {number: HEX, bytes: HEX})
formatTransaction(t) == [f \in DOMAIN t |-> Hex(t[f])]

\* getTransactionGasPricing(_transaction, web3Context, HEX): the objects it
\* may resolve to.  The network decides the mode; a field the caller set is
\* handed back with the caller's value.
getTransactionGasPricing(t) ==
    { [f \in {"gasPrice"} |-> NetworkGasPrice],
      [f \in {"maxPriorityFeePerGas", "maxFeePerGas"} |->
          IF t[f] # Undef THEN t[f]
          ELSE IF f = "maxPriorityFeePerGas" THEN NetworkPriorityFee
          ELSE NetworkMaxFee] }

(***************************************************************************)
(* sendTransaction: the pieces of its body                                 *)
(***************************************************************************)
\* the condition without its !options?.ignoreGasPricing conjunct
NeedsPricingIgnoringOption(t, ignoreGasPricing) ==
    /\ t["gasPrice"] = Undef
    /\ (t["maxPriorityFeePerGas"] = Undef \/ t["maxFeePerGas"] = Undef)

\* the condition of the `if` that guards pricing resolution
NeedsPricing(t, ignoreGasPricing) ==
    /\ ~ignoreGasPricing
    /\ t["gasPrice"] = Undef
    /\ (t["maxPriorityFeePerGas"] = Undef \/ t["maxFeePerGas"] = Undef)

\* { ...pricing, ..._transaction }: the spread written the other way round
MergeReversed(a, b) ==
    [f \in DOMAIN a \cup DOMAIN b |-> IF f \in DOMAIN a THEN a[f] ELSE b[f]]

\* _transaction = pricing: the resolver's output assigned instead of merged
MergeReplaced(a, b) ==
    [f \in DOMAIN a \cup DOMAIN b |-> IF f \in DOMAIN b THEN b[f] ELSE Undef]

\* { ..._transaction, ...pricing }
Merge(a, b) ==
    [f \in DOMAIN a \cup DOMAIN b |-> IF f \in DOMAIN b THEN b[f] ELSE a[f]]

\* if (promiEvent.listenerCount(tag) > 0) promiEvent.emit(tag, payload)
EmitIfListened(s, tag, payload) ==
    IF tag \in listeners[s] THEN <<Event(tag, payload)>> ELSE <<>>

\* the emit statement written twice
EmitAlwaysDuplicated(s, tag, payload) ==
    <<Event(tag, payload), Event(tag, payload)>>

\* promiEvent.emit(tag, payload)
EmitAlways(s, tag, payload) == <<Event(tag, payload)>>

\* the handle's emitter hands each emitted event to the listeners registered
\* for its tag at that moment; nothing is buffered
Emit(s, evs) ==
    /\ emitted' = [emitted EXCEPT ![s] = @ \o evs]
    /\ delivered' = [delivered EXCEPT ![s] =
                        @ \o SelectSeq(evs, LAMBDA e : e.tag \in listeners[s])]

\* rpcMethods.<method>(web3Context.requestManager, ...params), awaited
Call(s, method, params) ==
    /\ rpcLog' = [rpcLog EXCEPT ![s] = Append(@, Request(method, params))]
    /\ inflight' = [inflight EXCEPT ![s] = Request(method, params)]

\* an awaited call raised and the error is swallowed: the body goes on to
\* the receipt query as if a hash had come back
ThrowSwallowed(s, e) ==
    /\ pc' = [pc EXCEPT ![s] = "receipt"]
    /\ uncaught' = [uncaught EXCEPT ![s] = e]
    /\ inflight' = [inflight EXCEPT ![s] =
                       Request("eth_getTransactionReceipt", <<Text(HashOf(s))>>)]

\* an awaited call raised: the async function rejects; nothing catches it
Throw(s, e) ==
    /\ pc' = [pc EXCEPT ![s] = "crashed"]
    /\ uncaught' = [uncaught EXCEPT ![s] = e]
    /\ inflight' = [inflight EXCEPT ![s] = NoRequest]

\* the body run from inside the PromiEvent executor instead of setImmediate
CanStartEager(s) == TRUE

\* setImmediate: the callback runs in a later turn of the event loop
CanStart(s) == turn = "loop"

(***************************************************************************)
(* Initial state                                                           *)
(***************************************************************************)
Init ==
    /\ turn = "caller"
    /\ kind = [s \in Subs |-> None]
    /\ transaction = [s \in Subs |-> NoTransaction]
    /\ options = [s \in Subs |-> FALSE]
    /\ _transaction = [s \in Subs |-> NoTransaction]
    /\ pc = [s \in Subs |-> "none"]
    /\ fresh = [s \in Subs |-> FALSE]
    /\ listeners = [s \in Subs |-> {}]
    /\ syncListeners = [s \in Subs |-> {}]
    /\ emitted = [s \in Subs |-> <<>>]
    /\ delivered = [s \in Subs |-> <<>>]
    /\ rpcLog = [s \in Subs |-> <<>>]
    /\ inflight = [s \in Subs |-> NoRequest]
    /\ settled = [s \in Subs |-> Pending]
    /\ uncaught = [s \in Subs |-> None]
    /\ transactionHash = [s \in Subs |-> None]
    /\ transactionReceipt = [s \in Subs |-> NullReceipt]
    /\ attempts = [s \in Subs |-> 0]
    /\ lastSeen = [s \in Subs |-> 0]
    /\ blockHeight = 0

(***************************************************************************)
(* The caller                                                              *)
(***************************************************************************)
\* sendTransaction(web3Context, transaction, returnFormat, options): formats
\* the request, constructs the PromiEvent, schedules the body, returns
SubmitTx(s, t, ignoreGasPricing) ==
    /\ kind[s] = None
    /\ turn' = "caller"
    /\ kind' = [kind EXCEPT ![s] = "tx"]
    /\ transaction' = [transaction EXCEPT ![s] = t]
    /\ options' = [options EXCEPT ![s] = ignoreGasPricing]
    /\ _transaction' = [_transaction EXCEPT ![s] = formatTransaction(t)]
    /\ pc' = [pc EXCEPT ![s] = "scheduled"]
    /\ fresh' = [fresh EXCEPT ![s] = TRUE]
    /\ UNCHANGED <<listeners, syncListeners, emitted, delivered, rpcLog,
                   inflight, settled, uncaught, transactionHash,
                   transactionReceipt, attempts, lastSeen, blockHeight>>

\* sendSignedTransaction(web3Context, transaction)
SubmitSigned(s, bytes) ==
    /\ kind[s] = None
    /\ turn' = "caller"
    /\ kind' = [kind EXCEPT ![s] = "signed"]
    /\ transaction' = [transaction EXCEPT ![s] = bytes]
    /\ pc' = [pc EXCEPT ![s] = "scheduled"]
    /\ fresh' = [fresh EXCEPT ![s] = TRUE]
    /\ UNCHANGED <<options, _transaction, listeners, syncListeners, emitted,
                   delivered, rpcLog, inflight, settled, uncaught,
                   transactionHash, transactionReceipt, attempts, lastSeen,
                   blockHeight>>

\* promiEvent.on(tag, listener), from the turn submit returned in or later
On(s, tag) ==
    /\ kind[s] # None
    /\ tag \notin listeners[s]
    /\ fresh[s] \/ Cardinality(listeners[s] \ syncListeners[s]) < MaxLateOn
    /\ listeners' = [listeners EXCEPT ![s] = @ \cup {tag}]
    /\ syncListeners' = [syncListeners EXCEPT ![s] =
                            IF fresh[s] THEN @ \cup {tag} ELSE @]
    /\ UNCHANGED <<turn, kind, transaction, options, _transaction, pc, fresh,
                   emitted, delivered, rpcLog, inflight, settled, uncaught,
                   transactionHash, transactionReceipt, attempts, lastSeen,
                   blockHeight>>

\* the caller's synchronous code runs to completion
Yield ==
    /\ turn = "caller"
    /\ turn' = "loop"
    /\ fresh' = [s \in Subs |-> FALSE]
    /\ UNCHANGED <<kind, transaction, options, _transaction, pc, listeners,
                   syncListeners, emitted, delivered, rpcLog, inflight,
                   settled, uncaught, transactionHash, transactionReceipt,
                   attempts, lastSeen, blockHeight>>

(***************************************************************************)
(* Pieces shared by the bodies of both functions                           *)
(***************************************************************************)
\* an RPC completion is a callback: it runs only when the loop is free
Loop == turn = "loop"

\* resolve called with the receipt variable as it was before it was assigned
ResolveBeforeReceipt(s, r) ==
    settled' = [settled EXCEPT ![s] =
                   IF @.state = "pending"
                   THEN [state |-> "resolved", receipt |-> NullReceipt,
                         error |-> None]
                   ELSE @]

\* resolve(transactionReceipt): a promise settles once
Resolve(s, r) ==
    settled' = [settled EXCEPT ![s] =
                   IF @.state = "pending"
                   THEN [state |-> "resolved", receipt |-> r, error |-> None]
                   ELSE @]

\* answers the node may give to eth_getTransactionReceipt(h)
ReceiptAnswers(h) == {NullReceipt} \cup ReceiptsFor(h)

\* waitForTransactionReceipt(web3Context, transactionHash) is entered
waitForTransactionReceipt(s) ==
    /\ pc' = [pc EXCEPT ![s] = "polling"]
    /\ attempts' = [attempts EXCEPT ![s] = 0]
    /\ inflight' = [inflight EXCEPT ![s] = NoRequest]

\* watchTransactionForConfirmations(web3Context, promiEvent, receipt, hash)
\* is called: it subscribes to new block heads, from the inclusion block on
watchTransactionForConfirmations(s, r) ==
    /\ pc' = [pc EXCEPT ![s] = "watching"]
    /\ lastSeen' = [lastSeen EXCEPT ![s] = r.blockNumber]
    /\ rpcLog' = [rpcLog EXCEPT ![s] =
                     Append(@, Request("eth_subscribe", <<Text("newHeads")>>))]

(***************************************************************************)
(* sendTransaction: the async body                                         *)
(***************************************************************************)
\* `sending` carrying the formatted request as it was before pricing
SendingPayloadBeforePricing(s, tx) == formatTransaction(transaction[s])

\* promiEvent.emit('sending', _transaction)
SendingPayload(s, tx) == tx

\* emit `sending` if listened to, then await rpcMethods.sendTransaction
TxBroadcast(s, tx) ==
    /\ Emit(s, EmitIfListened(s, "sending", SendingPayload(s, tx)))
    /\ Call(s, "eth_sendTransaction", <<tx>>)
    /\ pc' = [pc EXCEPT ![s] = "broadcasting"]

\* the listener count of a misspelt tag is asked for: it is always zero
TxShouldWatchWrongTag(s) == "confirmations" \in listeners[s]

\* if (promiEvent.listenerCount('confirmation') > 0)
TxShouldWatch(s) == "confirmation" \in listeners[s]

\* the body resolves and goes on; the `receipt` emit is left for a later turn
TxMinedReceiptLate(s, r) ==
    /\ Emit(s, <<>>)
    /\ Resolve(s, r)
    /\ transactionReceipt' = [transactionReceipt EXCEPT ![s] = r]
    /\ inflight' = [inflight EXCEPT ![s] = NoRequest]
    /\ IF TxShouldWatch(s)
       THEN watchTransactionForConfirmations(s, r)
       ELSE /\ pc' = [pc EXCEPT ![s] = "done"]
            /\ UNCHANGED <<lastSeen, rpcLog>>

\* emit `receipt`, resolve, start the watcher if `confirmation` is listened to
TxMined(s, r) ==
    /\ Emit(s, EmitAlways(s, "receipt", r))
    /\ Resolve(s, r)
    /\ transactionReceipt' = [transactionReceipt EXCEPT ![s] = r]
    /\ inflight' = [inflight EXCEPT ![s] = NoRequest]
    /\ IF TxShouldWatch(s)
       THEN watchTransactionForConfirmations(s, r)
       ELSE /\ pc' = [pc EXCEPT ![s] = "done"]
            /\ UNCHANGED <<lastSeen, rpcLog>>

\* `sending` emitted at the top of the body, before pricing is resolved
TxEventsBeforePricingSending(s) ==
    EmitIfListened(s, "sending", _transaction[s])

\* what the body emits before it awaits getTransactionGasPricing: nothing
TxEventsBeforePricing(s) == <<>>

\* the setImmediate callback: decide on pricing, else go on to broadcast
TxStart(s) ==
    /\ CanStart(s)
    /\ kind[s] = "tx" /\ pc[s] = "scheduled"
    /\ IF NeedsPricing(transaction[s], options[s])
       THEN /\ Emit(s, TxEventsBeforePricing(s))
            /\ Call(s, "getTransactionGasPricing", <<_transaction[s]>>)
            /\ pc' = [pc EXCEPT ![s] = "pricing"]
       ELSE TxBroadcast(s, _transaction[s])
    /\ UNCHANGED <<turn, kind, transaction, options, _transaction, fresh,
                   listeners, syncListeners, settled, uncaught,
                   transactionHash, transactionReceipt, attempts, lastSeen,
                   blockHeight>>

\* the pricing query returned: merge it, go on to broadcast
TxPricingReturn(s, pricing) ==
    /\ Loop
    /\ kind[s] = "tx" /\ pc[s] = "pricing"
    /\ _transaction' = [_transaction EXCEPT ![s] = Merge(@, pricing)]
    /\ TxBroadcast(s, _transaction'[s])
    /\ UNCHANGED <<turn, kind, transaction, options, fresh, listeners,
                   syncListeners, settled, uncaught, transactionHash,
                   transactionReceipt, attempts, lastSeen, blockHeight>>

\* the pricing query raised
TxPricingRaise(s, e) ==
    /\ Loop
    /\ kind[s] = "tx" /\ pc[s] = "pricing"
    /\ Throw(s, e)
    /\ UNCHANGED <<turn, kind, transaction, options, _transaction, fresh,
                   listeners, syncListeners, emitted, delivered, rpcLog,
                   settled, transactionHash, transactionReceipt, attempts,
                   lastSeen, blockHeight>>

\* `sending` emitted after the awaited broadcast instead of before it
TxHashedEventsSendingLate(s, h) ==
    EmitIfListened(s, "sent", _transaction[s])
      \o EmitIfListened(s, "transactionHash", Text(h))
      \o EmitIfListened(s, "sending", _transaction[s])

\* the two emits that follow the awaited broadcast, in the other order
TxHashedEventsHashFirst(s, h) ==
    EmitIfListened(s, "transactionHash", Text(h))
      \o EmitIfListened(s, "sent", _transaction[s])

\* the two conditional emits that follow the awaited broadcast
TxHashedEvents(s, h) ==
    EmitIfListened(s, "sent", _transaction[s])
      \o EmitIfListened(s, "transactionHash", Text(h))

\* the broadcast returned a hash: emit `sent`, `transactionHash`, query receipt
TxBroadcastReturn(s, h) ==
    /\ Loop
    /\ kind[s] = "tx" /\ pc[s] = "broadcasting"
    /\ transactionHash' = [transactionHash EXCEPT ![s] = h]
    /\ Emit(s, TxHashedEvents(s, h))
    /\ Call(s, "eth_getTransactionReceipt", <<Text(h)>>)
    /\ pc' = [pc EXCEPT ![s] = "receipt"]
    /\ UNCHANGED <<turn, kind, transaction, options, _transaction, fresh,
                   listeners, syncListeners, settled, uncaught,
                   transactionReceipt, attempts, lastSeen, blockHeight>>

\* the broadcast raised
TxBroadcastRaise(s, e) ==
    /\ Loop
    /\ kind[s] = "tx" /\ pc[s] = "broadcasting"
    /\ Throw(s, e)
    /\ UNCHANGED <<turn, kind, transaction, options, _transaction, fresh,
                   listeners, syncListeners, emitted, delivered, rpcLog,
                   settled, transactionHash, transactionReceipt, attempts,
                   lastSeen, blockHeight>>

\* the answer of the first receipt query is not looked at: always poll
FirstAnswerDiscarded(r) == TRUE

\* `transactionReceipt === null` after the first receipt query
FirstAnswerNull(r) == r = NullReceipt

\* the first receipt query returned: null enters the poller, else mined
TxReceiptReturn(s, r) ==
    /\ Loop
    /\ kind[s] = "tx" /\ pc[s] = "receipt"
    /\ IF FirstAnswerNull(r)
       THEN /\ waitForTransactionReceipt(s)
            /\ transactionReceipt' = [transactionReceipt EXCEPT ![s] = r]
            /\ UNCHANGED <<emitted, delivered, settled, lastSeen, rpcLog>>
       ELSE /\ TxMined(s, r)
            /\ UNCHANGED attempts
    /\ UNCHANGED <<turn, kind, transaction, options, _transaction, fresh,
                   listeners, syncListeners, uncaught, transactionHash,
                   blockHeight>>

\* the first receipt query raised
TxReceiptRaise(s, e) ==
    /\ Loop
    /\ kind[s] = "tx" /\ pc[s] = "receipt"
    /\ Throw(s, e)
    /\ UNCHANGED <<turn, kind, transaction, options, _transaction, fresh,
                   listeners, syncListeners, emitted, delivered, rpcLog,
                   settled, transactionHash, transactionReceipt, attempts,
                   lastSeen, blockHeight>>

\* waitForTransactionReceipt resolved: the body resumes after its await
TxPollResolved(s) ==
    /\ Loop
    /\ kind[s] = "tx" /\ pc[s] = "resumed"
    /\ TxMined(s, transactionReceipt[s])
    /\ UNCHANGED <<turn, kind, transaction, options, _transaction, fresh,
                   listeners, syncListeners, uncaught, transactionHash,
                   attempts, blockHeight>>

(***************************************************************************)
(* sendSignedTransaction: the async body                                   *)
(***************************************************************************)
\* emit `receipt`, resolve, start the watcher
SignedMined(s, r) ==
    /\ Emit(s, EmitAlways(s, "receipt", r))
    /\ Resolve(s, r)
    /\ transactionReceipt' = [transactionReceipt EXCEPT ![s] = r]
    /\ inflight' = [inflight EXCEPT ![s] = NoRequest]
    /\ watchTransactionForConfirmations(s, r)

\* the bytes re-encoded on the way to the node (upper-case hex digits)
SignedBytesReencoded(s) == [raw |-> "0xF86C"]

\* the argument of rpcMethods.sendRawTransaction: the `transaction` parameter
SignedBytes(s) == transaction[s]

\* the setImmediate callback: emit `sending`, await sendRawTransaction
SignedStart(s) ==
    /\ CanStart(s)
    /\ kind[s] = "signed" /\ pc[s] = "scheduled"
    /\ Emit(s, EmitAlways(s, "sending", transaction[s]))
    /\ Call(s, "eth_sendRawTransaction", <<SignedBytes(s)>>)
    /\ pc' = [pc EXCEPT ![s] = "broadcasting"]
    /\ UNCHANGED <<turn, kind, transaction, options, _transaction, fresh,
                   listeners, syncListeners, settled, uncaught,
                   transactionHash, transactionReceipt, attempts, lastSeen,
                   blockHeight>>

\* the broadcast returned a hash: emit `sent`, `transactionHash`, query receipt
SignedBroadcastReturn(s, h) ==
    /\ Loop
    /\ kind[s] = "signed" /\ pc[s] = "broadcasting"
    /\ transactionHash' = [transactionHash EXCEPT ![s] = h]
    /\ Emit(s, EmitAlways(s, "sent", transaction[s])
                 \o EmitAlways(s, "transactionHash", Text(h)))
    /\ Call(s, "eth_getTransactionReceipt", <<Text(h)>>)
    /\ pc' = [pc EXCEPT ![s] = "receipt"]
    /\ UNCHANGED <<turn, kind, transaction, options, _transaction, fresh,
                   listeners, syncListeners, settled, uncaught,
                   transactionReceipt, attempts, lastSeen, blockHeight>>

\* the broadcast raised
SignedBroadcastRaise(s, e) ==
    /\ Loop
    /\ kind[s] = "signed" /\ pc[s] = "broadcasting"
    /\ Throw(s, e)
    /\ UNCHANGED <<turn, kind, transaction, options, _transaction, fresh,
                   listeners, syncListeners, emitted, delivered, rpcLog,
                   settled, transactionHash, transactionReceipt, attempts,
                   lastSeen, blockHeight>>

\* the first receipt query returned: null enters the poller, else mined
SignedReceiptReturn(s, r) ==
    /\ Loop
    /\ kind[s] = "signed" /\ pc[s] = "receipt"
    /\ IF FirstAnswerNull(r)
       THEN /\ waitForTransactionReceipt(s)
            /\ transactionReceipt' = [transactionReceipt EXCEPT ![s] = r]
            /\ UNCHANGED <<emitted, delivered, settled, lastSeen, rpcLog>>
       ELSE /\ SignedMined(s, r)
            /\ UNCHANGED attempts
    /\ UNCHANGED <<turn, kind, transaction, options, _transaction, fresh,
                   listeners, syncListeners, uncaught, transactionHash,
                   blockHeight>>

\* the first receipt query raised
SignedReceiptRaise(s, e) ==
    /\ Loop
    /\ kind[s] = "signed" /\ pc[s] = "receipt"
    /\ Throw(s, e)
    /\ UNCHANGED <<turn, kind, transaction, options, _transaction, fresh,
                   listeners, syncListeners, emitted, delivered, rpcLog,
                   settled, transactionHash, transactionReceipt, attempts,
                   lastSeen, blockHeight>>

\* waitForTransactionReceipt resolved: the body resumes after its await
SignedPollResolved(s) ==
    /\ Loop
    /\ kind[s] = "signed" /\ pc[s] = "resumed"
    /\ SignedMined(s, transactionReceipt[s])
    /\ UNCHANGED <<turn, kind, transaction, options, _transaction, fresh,
                   listeners, syncListeners, uncaught, transactionHash,
                   attempts, blockHeight>>

(***************************************************************************)
(* Receipt poller                                                          *)
(***************************************************************************)
\* a poller keeping the hash in one place for all submissions: it asks for
\* the hash of another submission once that one has been broadcast
PollerHashShared(s) ==
    IF \E o \in Subs \ {s} : transactionHash[o] # None
    THEN transactionHash[CHOOSE o \in Subs \ {s} : transactionHash[o] # None]
    ELSE transactionHash[s]

\* the hash the poller was called with: the body's own transactionHash
PollerHash(s) == transactionHash[s]

\* the poll interval elapsed: give up at the deadline, else query again
PollTick(s) ==
    /\ Loop
    /\ pc[s] = "polling"
    /\ IF attempts[s] >= MaxPollAttempts
       THEN /\ Throw(s, TimeoutError)
            /\ UNCHANGED <<rpcLog, attempts>>
       ELSE /\ Call(s, "eth_getTransactionReceipt", <<Text(PollerHash(s))>>)
            /\ attempts' = [attempts EXCEPT ![s] = @ + 1]
            /\ pc' = [pc EXCEPT ![s] = "pollquery"]
            /\ UNCHANGED uncaught
    /\ UNCHANGED <<turn, kind, transaction, options, _transaction, fresh,
                   listeners, syncListeners, emitted, delivered, settled,
                   transactionHash, transactionReceipt, lastSeen, blockHeight>>

\* a poll query returned: null waits for the next tick, a receipt ends polling
PollReturn(s, r) ==
    /\ Loop
    /\ pc[s] = "pollquery"
    /\ inflight' = [inflight EXCEPT ![s] = NoRequest]
    /\ IF r = NullReceipt
       THEN /\ pc' = [pc EXCEPT ![s] = "polling"]
            /\ UNCHANGED transactionReceipt
       ELSE /\ pc' = [pc EXCEPT ![s] = "resumed"]
            /\ transactionReceipt' = [transactionReceipt EXCEPT ![s] = r]
    /\ UNCHANGED <<turn, kind, transaction, options, _transaction, fresh,
                   listeners, syncListeners, emitted, delivered, rpcLog,
                   settled, uncaught, transactionHash, attempts, lastSeen,
                   blockHeight>>

\* a poll query raised: forwarded at once, the awaiting body throws
PollRaise(s, e) ==
    /\ Loop
    /\ pc[s] = "pollquery"
    /\ Throw(s, e)
    /\ UNCHANGED <<turn, kind, transaction, options, _transaction, fresh,
                   listeners, syncListeners, emitted, delivered, rpcLog,
                   settled, transactionHash, transactionReceipt, attempts,
                   lastSeen, blockHeight>>

(***************************************************************************)
(* Confirmation watcher and the chain                                      *)
(***************************************************************************)
\* a watcher error also rejecting the terminal result
WatcherErrorRejects(s, e) ==
    settled' = [settled EXCEPT ![s] =
                   [state |-> "rejected", receipt |-> NullReceipt, error |-> e]]

\* a watcher error leaves the terminal result as it is
WatcherErrorSettles(s, e) == UNCHANGED settled

\* a watcher error surfaces as an `error` event
WatcherErrorEvents(s, e) == <<Event("error", Text(e))>>

\* a watch that keeps running after it was cancelled
WatcherActiveAfterCancel(s) == pc[s] \in {"watching", "cancelled"}

\* the watch runs from its start until it fails or is cancelled
WatcherActive(s) == pc[s] = "watching"

\* the count taken from the chain's current head, not from the head notified
ConfirmationCountOfCurrentHead(s, height) ==
    blockHeight - transactionReceipt[s].blockNumber

\* the count the watcher reports for head `height`
ConfirmationCount(s, height) == height - transactionReceipt[s].blockNumber

\* the watcher is told of the next block head: emit the new count
WatcherObserve(s) ==
    /\ Loop
    /\ WatcherActive(s)
    /\ lastSeen[s] < blockHeight
    /\ lastSeen' = [lastSeen EXCEPT ![s] = @ + 1]
    /\ Emit(s, EmitAlways(s, "confirmation",
                 [confirmations |-> ConfirmationCount(s, lastSeen[s] + 1),
                  receipt |-> transactionReceipt[s]]))
    /\ UNCHANGED <<turn, kind, transaction, options, _transaction, pc, fresh,
                   listeners, syncListeners, rpcLog, inflight, settled,
                   uncaught, transactionHash, transactionReceipt, attempts,
                   blockHeight>>

\* the watcher loses its subscription: an `error` event, and it stops
WatcherFail(s, e) ==
    /\ Loop
    /\ pc[s] = "watching"
    /\ pc' = [pc EXCEPT ![s] = "watchfailed"]
    /\ Emit(s, WatcherErrorEvents(s, e))
    /\ WatcherErrorSettles(s, e)
    /\ UNCHANGED <<turn, kind, transaction, options, _transaction, fresh,
                   listeners, syncListeners, rpcLog, inflight, uncaught,
                   transactionHash, transactionReceipt, attempts, lastSeen,
                   blockHeight>>

\* Handle.cancelConfirmations(): the active watch stops for good
CancelConfirmations(s) ==
    /\ pc[s] = "watching"
    /\ pc' = [pc EXCEPT ![s] = "cancelled"]
    /\ UNCHANGED <<turn, kind, transaction, options, _transaction, fresh,
                   listeners, syncListeners, emitted, delivered, rpcLog,
                   inflight, settled, uncaught, transactionHash,
                   transactionReceipt, attempts, lastSeen, blockHeight>>

\* the network produces a block; heights count from the head at the time
\* the first broadcast was accepted
NewBlock ==
    /\ blockHeight < MaxBlocks
    /\ \E s \in Subs : transactionHash[s] # None
    /\ blockHeight' = blockHeight + 1
    /\ UNCHANGED <<turn, kind, transaction, options, _transaction, pc, fresh,
                   listeners, syncListeners, emitted, delivered, rpcLog,
                   inflight, settled, uncaught, transactionHash,
                   transactionReceipt, attempts, lastSeen>>

(***************************************************************************)
(* Specifications.  Both run one handle through the same actions; they     *)
(* differ in the inputs the caller is given.                               *)
(*   Spec        every listener registration, requests with and without    *)
(*               gasPrice, and the pre-signed path                         *)
(*   SpecPricing every request and option, listeners for two tags          *)
(***************************************************************************)
Handles == {"A"}

\* requests that differ in whether pricing resolution is entered
PlainTxInputs ==
    { t \in TxInputs :
        t["maxPriorityFeePerGas"] = Undef /\ t["maxFeePerGas"] = Undef }

PricingTags == {"sending", "sent"}

\* every step the event loop may run for handle s
Step(s) ==
    \/ TxStart(s)
    \/ /\ pc[s] = "pricing"
       /\ \E p \in getTransactionGasPricing(_transaction[s]) :
             TxPricingReturn(s, p)
    \/ \E e \in TransportErrors : TxPricingRaise(s, e)
    \/ TxBroadcastReturn(s, HashOf(s))
    \/ \E e \in TransportErrors : TxBroadcastRaise(s, e)
    \/ /\ pc[s] = "receipt"
       /\ \E r \in ReceiptAnswers(inflight[s].params[1].value) :
             TxReceiptReturn(s, r)
    \/ \E e \in TransportErrors : TxReceiptRaise(s, e)
    \/ TxPollResolved(s)
    \/ SignedStart(s)
    \/ SignedBroadcastReturn(s, HashOf(s))
    \/ \E e \in TransportErrors : SignedBroadcastRaise(s, e)
    \/ /\ pc[s] = "receipt"
       /\ \E r \in ReceiptAnswers(inflight[s].params[1].value) :
             SignedReceiptReturn(s, r)
    \/ \E e \in TransportErrors : SignedReceiptRaise(s, e)
    \/ SignedPollResolved(s)
    \/ PollTick(s)
    \/ /\ pc[s] = "pollquery"
       /\ \E r \in ReceiptAnswers(inflight[s].params[1].value) :
             PollReturn(s, r)
    \/ \E e \in TransportErrors : PollRaise(s, e)
    \/ WatcherObserve(s)
    \/ \E e \in WatcherErrors : WatcherFail(s, e)
    \/ CancelConfirmations(s)

Next ==
    \/ \E s \in Handles, t \in PlainTxInputs : SubmitTx(s, t, FALSE)
    \/ \E s \in Handles, b \in SignedInputs : SubmitSigned(s, b)
    \/ \E s \in Handles, tag \in Tags : On(s, tag)
    \/ Yield
    \/ \E s \in Handles : Step(s)
    \/ NewBlock

Spec == Init /\ [][Next]_vars

NextPricing ==
    \/ \E s \in Handles, t \in TxInputs, o \in BOOLEAN : SubmitTx(s, t, o)
    \/ \E s \in Handles, b \in SignedInputs : SubmitSigned(s, b)
    \/ \E s \in Handles, tag \in PricingTags : On(s, tag)
    \/ Yield
    \/ \E s \in Handles : Step(s)
    \/ NewBlock

SpecPricing == Init /\ [][NextPricing]_vars

\* two submissions in flight at once: a request that enters pricing on
\* handle A, a signed transaction on handle B, listeners of the submit turn
ConcTxInputs == { t \in PlainTxInputs : t["gasPrice"] = Undef }
ConcTags == {"sending", "receipt"}

NextConc ==
    \/ \E t \in ConcTxInputs : SubmitTx("A", t, FALSE)
    \/ \E b \in SignedInputs : SubmitSigned("B", b)
    \/ \E s \in Subs, tag \in ConcTags : fresh[s] /\ On(s, tag)
    \/ Yield
    \/ \E s \in Subs : Step(s)
    \/ NewBlock

SpecConc == Init /\ [][NextConc]_vars

\* one submission whose listeners are those of the submit turn, the event
\* loop and the watcher's head notifications scheduled fairly
FairTags == {"receipt", "confirmation"}

NextFair ==
    \/ \E s \in Handles, t \in ConcTxInputs : SubmitTx(s, t, FALSE)
    \/ \E s \in Handles, b \in SignedInputs : SubmitSigned(s, b)
    \/ \E s \in Handles, tag \in FairTags : fresh[s] /\ On(s, tag)
    \/ Yield
    \/ \E s \in Handles : Step(s)
    \/ NewBlock

SpecFair ==
    /\ Init /\ [][NextFair]_vars
    /\ WF_vars(Yield)
    /\ \A s \in Handles : WF_vars(WatcherObserve(s))

(***************************************************************************)
(* Vocabulary of the properties                                            *)
(***************************************************************************)
BroadcastMethods == {"eth_sendTransaction", "eth_sendRawTransaction"}
LifecycleTags == {"sending", "sent", "transactionHash", "receipt"}

Broadcasts(s) == SelectSeq(rpcLog[s], LAMBDA q : q.method \in BroadcastMethods)
ReceiptQueries(s) ==
    SelectSeq(rpcLog[s], LAMBDA q : q.method = "eth_getTransactionReceipt")
PricingQueried(s) == "getTransactionGasPricing" \in Methods(rpcLog[s])
LastMethod(s) == rpcLog[s][Len(rpcLog[s])].method

\* the stage whose completion fires the event of this tag has been passed
StageReached(s, tag) ==
    CASE tag = "sending" -> Len(Broadcasts(s)) > 0
      [] tag \in {"sent", "transactionHash"} -> transactionHash[s] # None
      [] tag = "receipt" -> settled[s].state = "resolved"
      [] OTHER -> FALSE

Rank(tag) ==
    CASE tag = "sending" -> 1
      [] tag \in {"sent", "transactionHash"} -> 2
      [] tag = "receipt" -> 3
      [] tag = "confirmation" -> 4
      [] OTHER -> 0

BroadcastRaised(s) ==
    /\ pc[s] = "crashed"
    /\ uncaught[s] \in TransportErrors
    /\ LastMethod(s) \in BroadcastMethods

ReceiptQueryRaised(s) ==
    /\ pc[s] = "crashed"
    /\ uncaught[s] \in TransportErrors
    /\ LastMethod(s) = "eth_getTransactionReceipt"

RejectedWith(s, e) == settled[s].state = "rejected" /\ settled[s].error = e

ErrorDelivered(s, e) ==
    \E i \in DOMAIN delivered[s] :
        delivered[s][i].tag = "error" /\ delivered[s][i].payload = Text(e)

LegacyOnly(x) ==
    /\ x["gasPrice"] # Undef
    /\ x["maxPriorityFeePerGas"] = Undef
    /\ x["maxFeePerGas"] = Undef

FeeMarketOnly(x) ==
    /\ x["gasPrice"] = Undef
    /\ x["maxPriorityFeePerGas"] # Undef
    /\ x["maxFeePerGas"] # Undef

FeeMarketFull(x) == x["maxPriorityFeePerGas"] # Undef /\ x["maxFeePerGas"] # Undef

\* the request lacks gasPrice and a complete fee-market pair, pricing enabled
LacksPricing(s) ==
    /\ kind[s] = "tx"
    /\ ~options[s]
    /\ transaction[s]["gasPrice"] = Undef
    /\ ~FeeMarketFull(transaction[s])

(***************************************************************************)
(* C1: nothing is emitted and no RPC is issued while the turn that called  *)
(* submit is still running, and a listener registered in that turn for     *)
(* sending, sent, transactionHash or receipt has received the event of     *)
(* every stage the submission has passed.                                  *)
(***************************************************************************)
C1_ListenersOfSubmitTurnMissNothing ==
    \A s \in Subs :
        /\ fresh[s] => Len(emitted[s]) = 0 /\ Len(rpcLog[s]) = 0
        /\ \A tag \in syncListeners[s] \cap LifecycleTags :
              StageReached(s, tag) => tag \in TagsOf(delivered[s])

C1_Witness ==
    \E s \in Subs :
        /\ LifecycleTags \subseteq syncListeners[s]
        /\ LifecycleTags \subseteq TagsOf(delivered[s])

(***************************************************************************)
(* C2: the events of one submission are emitted in stage order: sending,   *)
(* then sent and transactionHash, then receipt, then confirmations.        *)
(***************************************************************************)
C2_EventsInStageOrder ==
    \A s \in Subs :
        \A i, j \in DOMAIN emitted[s] :
            (/\ i < j
             /\ emitted[s][i].tag # "error"
             /\ emitted[s][j].tag # "error") =>
                Rank(emitted[s][i].tag) <= Rank(emitted[s][j].tag)

C2_Witness ==
    \E s \in Subs :
        /\ kind[s] = "tx"
        /\ (LifecycleTags \cup {"confirmation"}) \subseteq TagsOf(emitted[s])

(***************************************************************************)
(* C3: when the broadcast RPC raises, the terminal result rejects with     *)
(* that error and an `error` event carrying it reaches the registered      *)
(* `error` listeners.                                                      *)
(***************************************************************************)
C3_BroadcastErrorSurfaces ==
    \A s \in Subs :
        BroadcastRaised(s) =>
            /\ RejectedWith(s, uncaught[s])
            /\ "error" \in listeners[s] => ErrorDelivered(s, uncaught[s])

(***************************************************************************)
(* C4: once the body of a submission has run to its end (mined, or failed  *)
(* at pricing, broadcast or receipt polling) the terminal result is        *)
(* settled.                                                                *)
(***************************************************************************)
C4_ResultSettles ==
    \A s \in Subs :
        pc[s] \in {"done", "watching", "crashed"} => settled[s].state # "pending"

(***************************************************************************)
(* C5: when the poller gives up at its deadline the terminal result        *)
(* rejects with TimeoutError, which is no TransportError, and no receipt   *)
(* event was emitted.                                                      *)
(***************************************************************************)
C5_TimeoutRejects ==
    \A s \in Subs :
        (pc[s] = "crashed" /\ uncaught[s] = TimeoutError) =>
            /\ RejectedWith(s, TimeoutError)
            /\ TimeoutError \notin TransportErrors
            /\ "receipt" \notin TagsOf(emitted[s])

(***************************************************************************)
(* C6: when a receipt query raises, no receipt query is in flight or       *)
(* follows and the terminal result rejects with that same error; a null    *)
(* answer is no error: while the poller waits for its next attempt nothing *)
(* was raised and the result is still pending.                             *)
(***************************************************************************)
C6_ReceiptErrorStopsPolling ==
    \A s \in Subs :
        /\ ReceiptQueryRaised(s) =>
              /\ inflight[s] = NoRequest
              /\ RejectedWith(s, uncaught[s])
        /\ pc[s] = "polling" =>
              /\ uncaught[s] = None
              /\ settled[s].state = "pending"

(***************************************************************************)
(* C7: sendTransaction queries pricing exactly when ignoreGasPricing is    *)
(* not set, gasPrice is undefined and one of maxPriorityFeePerGas and      *)
(* maxFeePerGas is undefined; otherwise it broadcasts the caller's pricing *)
(* fields as given (in their HEX rendering).                               *)
(***************************************************************************)
C7_PricingExactlyWhenNeeded ==
    \A s \in Subs :
        (kind[s] = "tx" /\ pc[s] # "scheduled") =>
            /\ PricingQueried(s) <=>
                  /\ ~options[s]
                  /\ transaction[s]["gasPrice"] = Undef
                  /\ \/ transaction[s]["maxPriorityFeePerGas"] = Undef
                     \/ transaction[s]["maxFeePerGas"] = Undef
            /\ ~PricingQueried(s) =>
                  /\ Len(Broadcasts(s)) = 1
                  /\ \A f \in PricingFields :
                        Broadcasts(s)[1].params[1][f] = Hex(transaction[s][f])

C7_Witness ==
    \E s \in Subs :
        /\ kind[s] = "tx" /\ options[s]
        /\ \A f \in PricingFields : transaction[s][f] = Undef
        /\ ~PricingQueried(s)
        /\ Len(Broadcasts(s)) = 1

(***************************************************************************)
(* C8 as stated: a request lacking pricing is broadcast with exactly one   *)
(* pricing mode fully populated and the fields of the other mode unset.    *)
(***************************************************************************)
C8_OtherModeUnset ==
    \A s \in Subs :
        LacksPricing(s) =>
            \A i \in DOMAIN Broadcasts(s) :
                \/ LegacyOnly(Broadcasts(s)[i].params[1])
                \/ FeeMarketOnly(Broadcasts(s)[i].params[1])

(***************************************************************************)
(* C8 as amended: a request lacking pricing is broadcast with exactly one  *)
(* pricing mode fully populated, and the fields of the other mode are as   *)
(* the caller gave them.                                                   *)
(***************************************************************************)
C8_OtherModeUntouched ==
    \A s \in Subs :
        LacksPricing(s) =>
            \A i \in DOMAIN Broadcasts(s) :
                LET x == Broadcasts(s)[i].params[1] IN
                \/ /\ x["gasPrice"] # Undef
                   /\ ~FeeMarketFull(x)
                   /\ \A f \in {"maxPriorityFeePerGas", "maxFeePerGas"} :
                         x[f] = Hex(transaction[s][f])
                \/ /\ FeeMarketFull(x)
                   /\ x["gasPrice"] = Undef

C8_Witness ==
    \E s \in Subs :
        /\ LacksPricing(s)
        /\ transaction[s]["maxFeePerGas"] # Undef
        /\ Len(Broadcasts(s)) = 1
        /\ Broadcasts(s)[1].params[1]["gasPrice"] = NetworkGasPrice

(***************************************************************************)
(* C9: when pricing resolution ran, the broadcast transaction carries the  *)
(* caller's value (in its HEX rendering) for every field the caller set.   *)
(***************************************************************************)
C9_CallerFieldsSurvivePricing ==
    \A s \in Subs :
        (kind[s] = "tx" /\ PricingQueried(s)) =>
            \A i \in DOMAIN Broadcasts(s) :
                \A f \in TxFields :
                    transaction[s][f] # Undef =>
                        Broadcasts(s)[i].params[1][f] = Hex(transaction[s][f])

C9_Witness ==
    \E s \in Subs :
        /\ kind[s] = "tx" /\ PricingQueried(s)
        /\ transaction[s]["maxFeePerGas"] # Undef
        /\ transaction[s]["maxPriorityFeePerGas"] = Undef
        /\ Len(Broadcasts(s)) = 1
        /\ Broadcasts(s)[1].params[1]["maxPriorityFeePerGas"] = NetworkPriorityFee
        /\ Broadcasts(s)[1].params[1]["maxFeePerGas"] = Hex(transaction[s]["maxFeePerGas"])

(***************************************************************************)
(* C10: a request with gasPrice and the complete fee-market pair set is    *)
(* rejected with a ValidationError before any network call: no RPC is ever *)
(* issued for it, and once its body has started the result is rejected.    *)
(***************************************************************************)
C10_BothModesRejected ==
    \A s \in Subs :
        (/\ kind[s] = "tx"
         /\ transaction[s]["gasPrice"] # Undef
         /\ FeeMarketFull(transaction[s])) =>
            /\ Len(rpcLog[s]) = 0
            /\ pc[s] # "scheduled" => RejectedWith(s, "ValidationError")

PricingRaised(s) ==
    /\ pc[s] = "crashed"
    /\ uncaught[s] \in TransportErrors
    /\ LastMethod(s) = "getTransactionGasPricing"

(***************************************************************************)
(* C11: when the pricing query raises, the submission has issued no        *)
(* broadcast RPC and has emitted none of sending, sent, transactionHash,   *)
(* receipt.                                                                *)
(***************************************************************************)
C11_PricingFailureAborts ==
    \A s \in Subs :
        PricingRaised(s) =>
            /\ Len(Broadcasts(s)) = 0
            /\ TagsOf(emitted[s]) \cap LifecycleTags = {}

C11_Witness ==
    \E s \in Subs :
        /\ PricingRaised(s)
        /\ LifecycleTags \subseteq listeners[s]

Count(seq, tag) == Len(SelectSeq(seq, LAMBDA e : e.tag = tag))

(***************************************************************************)
(* C12: each of sending, sent, transactionHash, receipt is emitted at most *)
(* once per submission; once the stage of a tag has passed no listener is  *)
(* called for that tag any more (no replay for a listener registered       *)
(* late), and a listener registered when the stage passes is called        *)
(* exactly once.                                                           *)
(***************************************************************************)
C12_AtMostOnceNoReplay ==
    [][\A s \in Subs : \A tag \in LifecycleTags :
          /\ Count(emitted'[s], tag) <= 1
          /\ Count(delivered'[s], tag) <= 1
          /\ StageReached(s, tag) =>
                Count(delivered'[s], tag) = Count(delivered[s], tag)
          /\ (tag \in listeners[s] /\ ~StageReached(s, tag)
                /\ StageReached(s, tag)') =>
                Count(delivered'[s], tag) = 1]_vars

C12_Witness ==
    \E s \in Subs :
        /\ settled[s].state = "resolved"
        /\ "sent" \in syncListeners[s]
        /\ Count(delivered[s], "sent") = 1
        /\ "receipt" \in listeners[s] \ syncListeners[s]
        /\ Count(delivered[s], "receipt") = 0

Mined(s) == settled[s].state = "resolved"
WatcherStarts(s) ==
    \/ pc[s] # "watching" /\ pc'[s] = "watching"
    \/ /\ "eth_subscribe" \in Methods(rpcLog'[s])
       /\ "eth_subscribe" \notin Methods(rpcLog[s])
Confirmations(s) == SelectSeq(delivered[s], LAMBDA e : e.tag = "confirmation")

(***************************************************************************)
(* C13: on both paths the confirmation watcher is started (and its         *)
(* subscription made) only if a `confirmation` listener is registered at   *)
(* that moment.                                                            *)
(***************************************************************************)
C13_WatcherOnlyIfListened ==
    [][\A s \in Subs :
          WatcherStarts(s) => "confirmation" \in listeners[s]]_vars

(***************************************************************************)
(* C14: whenever a block is produced while a `confirmation` listener is    *)
(* registered on a mined submission whose watch was neither cancelled nor  *)
(* lost, a watcher is running to report it, also when the listener was     *)
(* registered after the receipt.                                           *)
(***************************************************************************)
C14_LateConfirmationListenerServed ==
    [][\A s \in Subs :
          (/\ blockHeight' > blockHeight
           /\ Mined(s)
           /\ "confirmation" \in listeners[s]
           /\ pc[s] \notin {"cancelled", "watchfailed"}) =>
              pc[s] = "watching"]_vars

(***************************************************************************)
(* C15: the confirmation counts delivered to a listener go up by exactly   *)
(* one from each to the next, and none exceeds the number of blocks on top *)
(* of the inclusion block.                                                 *)
(***************************************************************************)
C15_ConfirmationsIncreaseByOne ==
    \A s \in Subs :
        /\ \A i \in DOMAIN Confirmations(s) :
              /\ Confirmations(s)[i].payload.confirmations >= 1
              /\ Confirmations(s)[i].payload.confirmations
                    <= blockHeight - transactionReceipt[s].blockNumber
        /\ \A i \in 1 .. Len(Confirmations(s)) - 1 :
              Confirmations(s)[i + 1].payload.confirmations
                 = Confirmations(s)[i].payload.confirmations + 1

C15_Witness ==
    \E s \in Subs :
        /\ Len(Confirmations(s)) = 2
        /\ Confirmations(s)[2].payload.confirmations = 2

(***************************************************************************)
(* C16: the terminal result settles at most once: once settled it never    *)
(* changes, whatever the watcher or the caller do afterwards; a watcher    *)
(* error adds one `error` event and leaves the result as it is.            *)
(***************************************************************************)
C16_ResultSettlesOnce ==
    [][\A s \in Subs :
          /\ settled[s].state # "pending" => settled'[s] = settled[s]
          /\ (pc[s] = "watching" /\ pc'[s] = "watchfailed") =>
                /\ settled'[s] = settled[s]
                /\ Count(emitted'[s], "error") = Count(emitted[s], "error") + 1]_vars

C16_Witness ==
    \E s \in Subs :
        /\ pc[s] = "watchfailed"
        /\ Mined(s)
        /\ \E e \in WatcherErrors : ErrorDelivered(s, e)

(***************************************************************************)
(* C19: once the caller has cancelled the confirmation watch, no           *)
(* `confirmation` event is emitted, no request is issued for the           *)
(* submission, and nothing (registering a listener included) restarts the  *)
(* watch.                                                                  *)
(***************************************************************************)
C19_CancelledWatchStaysStopped ==
    [][\A s \in Subs :
          pc[s] = "cancelled" =>
              /\ pc'[s] = "cancelled"
              /\ Count(emitted'[s], "confirmation")
                    = Count(emitted[s], "confirmation")
              /\ Len(rpcLog'[s]) = Len(rpcLog[s])]_vars

C19_Witness ==
    \E s \in Subs :
        /\ pc[s] = "cancelled"
        /\ "confirmation" \in listeners[s] \ syncListeners[s]
        /\ lastSeen[s] < blockHeight

\* what the listeners of s were called with, the watcher's events left out
PipelineDelivered(s) ==
    SelectSeq(delivered[s], LAMBDA e : e.tag \in LifecycleTags \/ e.tag = "error")

\* s is the scenario: listeners for every tag attached in the submit turn,
\* pricing resolved to legacy, the result resolved
AllTagsLegacyMined(s) ==
    /\ kind[s] = "tx"
    /\ Tags \subseteq syncListeners[s]
    /\ PricingQueried(s)
    /\ LegacyOnly(_transaction[s])
    /\ Mined(s)

OwnTransaction(s) == IF kind[s] = "tx" THEN _transaction[s] ELSE transaction[s]

\* event e stems from the submission of handle s
OwnEvent(s, e) ==
    CASE e.tag \in {"sending", "sent"} -> e.payload = OwnTransaction(s)
      [] e.tag = "transactionHash" -> e.payload = Text(HashOf(s))
      [] e.tag = "receipt" -> e.payload.transactionHash = HashOf(s)
      [] e.tag = "confirmation" -> e.payload.receipt.transactionHash = HashOf(s)
      [] OTHER -> TRUE

(***************************************************************************)
(* C18: with two submissions in flight at once, under every interleaving   *)
(* of their RPC completions, each event emitted on or delivered by a       *)
(* handle carries that handle's own transaction, hash or receipt, its      *)
(* result resolves to its own receipt, and its receipt queries all carry   *)
(* the hash its own broadcast returned.                                    *)
(***************************************************************************)
C18_NoCrossTalk ==
    \A s \in Subs :
        /\ transactionHash[s] \in {None, HashOf(s)}
        /\ \A i \in DOMAIN ReceiptQueries(s) :
              ReceiptQueries(s)[i].params = <<Text(HashOf(s))>>
        /\ \A i \in DOMAIN emitted[s] : OwnEvent(s, emitted[s][i])
        /\ \A i \in DOMAIN delivered[s] : OwnEvent(s, delivered[s][i])
        /\ Mined(s) => settled[s].receipt.transactionHash = HashOf(s)

C18_Witness ==
    /\ Mined("A")
    /\ attempts["A"] >= 1
    /\ "receipt" \in TagsOf(delivered["A"])
    /\ "sending" \in TagsOf(delivered["A"])
    /\ pc["B"] = "pollquery"
    /\ "sending" \in TagsOf(delivered["B"])

\* a block has been produced on top of the inclusion block of s, whose
\* `confirmation` listener was attached in the turn send() returned in
BlockOnTopListened(s) ==
    /\ "confirmation" \in syncListeners[s]
    /\ Mined(s)
    /\ blockHeight > transactionReceipt[s].blockNumber

(***************************************************************************)
(* C20: if a `confirmation` listener is attached right after send()        *)
(* returns and a block is produced on top of the inclusion block, then,    *)
(* the watcher being scheduled fairly, the listener is eventually called,  *)
(* unless the watch is cancelled or lost first.                            *)
(***************************************************************************)
C20_ConfirmationEventuallyDelivered ==
    \A s \in Handles :
        BlockOnTopListened(s) ~>
            \/ "confirmation" \in TagsOf(delivered[s])
            \/ pc[s] \in {"cancelled", "watchfailed"}

C20_Witness ==
    \E s \in Handles :
        /\ kind[s] = "tx"
        /\ BlockOnTopListened(s)
        /\ "confirmation" \in TagsOf(delivered[s])

(***************************************************************************)
(* C21: a submission whose transaction is included but reverted makes the  *)
(* handle reject: the result never resolves with a failed-status receipt.  *)
(***************************************************************************)
C21_RevertRejects ==
    \A s \in Subs :
        transactionReceipt[s].status = "failed" /\ pc[s] \notin {"pollquery", "resumed"} =>
            /\ settled[s].state # "resolved"
            /\ settled[s].state = "rejected"

(***************************************************************************)
(* Class Web3Eth: one asynchronous method per RPC method.  A handle of     *)
(* kind "eth" is one invocation: `transaction` holds what it was called    *)
(* with, `rpcLog` what it sent through the request manager, `settled` the  *)
(* promise it returned.                                                    *)
(***************************************************************************)
\* the asynchronous methods of class Web3Eth
EthMethods ==
    { "getSha3", "getProtocolVersion", "getSyncing", "getCoinbase",
      "getMining", "getHashRate", "getGasPrice", "getAccounts",
      "getBlockNumber", "getBalance", "getStorageAt",
      "getTransactionCount", "getBlockTransactionCountByHash",
      "getBlockTransactionCountByNumber", "getUncleCountByBlockHash",
      "getUncleCountByBlockNumber", "getCode", "sign",
      "signTransaction", "sendTransaction", "sendRawTransaction",
      "call", "estimateGas", "getBlockByHash", "getBlockByNumber",
      "getTransactionByHash", "getTransactionByBlockHashAndIndex",
      "getTransactionByBlockNumberAndIndex", "getTransactionReceipt",
      "getUncleByBlockHashAndIndex", "getUncleByBlockNumberAndIndex",
      "getCompilers", "compileSolidity", "compileLLL",
      "compileSerpent", "newFilter", "newBlockFilter",
      "newPendingTransactionFilter", "uninstallFilter",
      "getFilterChanges", "getFilterLogs", "getLogs", "getWork",
      "submitWork", "submitHashRate" }

\* method: '<name>' of the request each method builds
EthRpcName(m) ==
    CASE m = "getSha3" -> "eth_sha3"
      [] m = "getProtocolVersion" -> "eth_protocolVersion"
      [] m = "getSyncing" -> "eth_syncing"
      [] m = "getCoinbase" -> "eth_coinbase"
      [] m = "getMining" -> "eth_mining"
      [] m = "getHashRate" -> "eth_hashrate"
      [] m = "getGasPrice" -> "eth_gasPrice"
      [] m = "getAccounts" -> "eth_accounts"
      [] m = "getBlockNumber" -> "eth_blockNumber"
      [] m = "getBalance" -> "eth_getBalance"
      [] m = "getStorageAt" -> "eth_getStorageAt"
      [] m = "getTransactionCount" -> "eth_getTransactionCount"
      [] m = "getBlockTransactionCountByHash" -> "eth_getBlockTransactionCountByHash"
      [] m = "getBlockTransactionCountByNumber" -> "eth_getBlockTransactionCountByNumber"
      [] m = "getUncleCountByBlockHash" -> "eth_getUncleCountByBlockHash"
      [] m = "getUncleCountByBlockNumber" -> "eth_getUncleCountByBlockNumber"
      [] m = "getCode" -> "eth_getCode"
      [] m = "sign" -> "eth_sign"
      [] m = "signTransaction" -> "eth_signTransaction"
      [] m = "sendTransaction" -> "eth_sendTransaction"
      [] m = "sendRawTransaction" -> "eth_sendRawTransaction"
      [] m = "call" -> "eth_call"
      [] m = "estimateGas" -> "eth_estimateGas"
      [] m = "getBlockByHash" -> "eth_getBlockByHash"
      [] m = "getBlockByNumber" -> "eth_getBlockByNumber"
      [] m = "getTransactionByHash" -> "eth_getTransactionByHash"
      [] m = "getTransactionByBlockHashAndIndex" -> "eth_getTransactionByBlockHashAndIndex"
      [] m = "getTransactionByBlockNumberAndIndex" -> "eth_getTransactionByBlockNumberAndIndex"
      [] m = "getTransactionReceipt" -> "eth_getTransactionReceipt"
      [] m = "getUncleByBlockHashAndIndex" -> "eth_getUncleByBlockHashAndIndex"
      [] m = "getUncleByBlockNumberAndIndex" -> "eth_getUncleByBlockNumberAndIndex"
      [] m = "getCompilers" -> "eth_getCompilers"
      [] m = "compileSolidity" -> "eth_compileSolidity"
      [] m = "compileLLL" -> "eth_compileLLL"
      [] m = "compileSerpent" -> "eth_compileSerpent"
      [] m = "newFilter" -> "eth_newFilter"
      [] m = "newBlockFilter" -> "eth_newBlockFilter"
      [] m = "newPendingTransactionFilter" -> "eth_newPendingTransactionFilter"
      [] m = "uninstallFilter" -> "eth_uninstallFilter"
      [] m = "getFilterChanges" -> "eth_getFilterChanges"
      [] m = "getFilterLogs" -> "eth_getFilterLogs"
      [] m = "getLogs" -> "eth_getLogs"
      [] m = "getWork" -> "eth_getWork"
      [] m = "submitWork" -> "eth_submitWork"
      [] m = "submitHashRate" -> "eth_submitHashRate"

\* the number of positional arguments each method takes before rpcOptions
EthArity(m) ==
    CASE m = "getSha3" -> 1
      [] m = "getProtocolVersion" -> 0
      [] m = "getSyncing" -> 0
      [] m = "getCoinbase" -> 0
      [] m = "getMining" -> 0
      [] m = "getHashRate" -> 0
      [] m = "getGasPrice" -> 0
      [] m = "getAccounts" -> 0
      [] m = "getBlockNumber" -> 0
      [] m = "getBalance" -> 2
      [] m = "getStorageAt" -> 3
      [] m = "getTransactionCount" -> 2
      [] m = "getBlockTransactionCountByHash" -> 1
      [] m = "getBlockTransactionCountByNumber" -> 1
      [] m = "getUncleCountByBlockHash" -> 1
      [] m = "getUncleCountByBlockNumber" -> 1
      [] m = "getCode" -> 2
      [] m = "sign" -> 2
      [] m = "signTransaction" -> 1
      [] m = "sendTransaction" -> 1
      [] m = "sendRawTransaction" -> 1
      [] m = "call" -> 1
      [] m = "estimateGas" -> 1
      [] m = "getBlockByHash" -> 2
      [] m = "getBlockByNumber" -> 2
      [] m = "getTransactionByHash" -> 1
      [] m = "getTransactionByBlockHashAndIndex" -> 2
      [] m = "getTransactionByBlockNumberAndIndex" -> 2
      [] m = "getTransactionReceipt" -> 1
      [] m = "getUncleByBlockHashAndIndex" -> 2
      [] m = "getUncleByBlockNumberAndIndex" -> 2
      [] m = "getCompilers" -> 0
      [] m = "compileSolidity" -> 1
      [] m = "compileLLL" -> 1
      [] m = "compileSerpent" -> 1
      [] m = "newFilter" -> 1
      [] m = "newBlockFilter" -> 0
      [] m = "newPendingTransactionFilter" -> 0
      [] m = "uninstallFilter" -> 1
      [] m = "getFilterChanges" -> 1
      [] m = "getFilterLogs" -> 1
      [] m = "getLogs" -> 1
      [] m = "getWork" -> 0
      [] m = "submitWork" -> 3
      [] m = "submitHashRate" -> 2

\* params: [...]: how many of the positional arguments, in order, it holds
EthParamCount(m) ==
    CASE m = "getSha3" -> 0
      [] m = "getProtocolVersion" -> 0
      [] m = "getSyncing" -> 0
      [] m = "getCoinbase" -> 0
      [] m = "getMining" -> 0
      [] m = "getHashRate" -> 0
      [] m = "getGasPrice" -> 0
      [] m = "getAccounts" -> 0
      [] m = "getBlockNumber" -> 0
      [] m = "getBalance" -> 2
      [] m = "getStorageAt" -> 3
      [] m = "getTransactionCount" -> 2
      [] m = "getBlockTransactionCountByHash" -> 1
      [] m = "getBlockTransactionCountByNumber" -> 1
      [] m = "getUncleCountByBlockHash" -> 1
      [] m = "getUncleCountByBlockNumber" -> 1
      [] m = "getCode" -> 2
      [] m = "sign" -> 2
      [] m = "signTransaction" -> 1
      [] m = "sendTransaction" -> 1
      [] m = "sendRawTransaction" -> 1
      [] m = "call" -> 1
      [] m = "estimateGas" -> 1
      [] m = "getBlockByHash" -> 2
      [] m = "getBlockByNumber" -> 2
      [] m = "getTransactionByHash" -> 1
      [] m = "getTransactionByBlockHashAndIndex" -> 2
      [] m = "getTransactionByBlockNumberAndIndex" -> 2
      [] m = "getTransactionReceipt" -> 1
      [] m = "getUncleByBlockHashAndIndex" -> 2
      [] m = "getUncleByBlockNumberAndIndex" -> 2
      [] m = "getCompilers" -> 0
      [] m = "compileSolidity" -> 1
      [] m = "compileLLL" -> 1
      [] m = "compileSerpent" -> 1
      [] m = "newFilter" -> 1
      [] m = "newBlockFilter" -> 0
      [] m = "newPendingTransactionFilter" -> 0
      [] m = "uninstallFilter" -> 1
      [] m = "getFilterChanges" -> 1
      [] m = "getFilterLogs" -> 1
      [] m = "getLogs" -> 1
      [] m = "getWork" -> 0
      [] m = "submitWork" -> 3
      [] m = "submitHashRate" -> 2

\* the message of the Error each method throws when send raises that error
EthErrorText(m) ==
    CASE m = "getSha3" -> "Error getting sha3 hash: connection refused"
      [] m = "getProtocolVersion" -> "Error getting protocol version: connection refused"
      [] m = "getSyncing" -> "Error getting syncing status: connection refused"
      [] m = "getCoinbase" -> "Error getting coinbase address: connection refused"
      [] m = "getMining" -> "Error getting mining status: connection refused"
      [] m = "getHashRate" -> "Error getting hash rate: connection refused"
      [] m = "getGasPrice" -> "Error getting gas price: connection refused"
      [] m = "getAccounts" -> "Error getting accounts: connection refused"
      [] m = "getBlockNumber" -> "Error getting block number: connection refused"
      [] m = "getBalance" -> "Error getting balance: connection refused"
      [] m = "getStorageAt" -> "Error getting storage value: connection refused"
      [] m = "getTransactionCount" -> "Error getting transaction count: connection refused"
      [] m = "getBlockTransactionCountByHash" -> "Error getting transaction count for block by hash: connection refused"
      [] m = "getBlockTransactionCountByNumber" -> "Error getting transaction count for block by number: connection refused"
      [] m = "getUncleCountByBlockHash" -> "Error getting uncle count for block by hash: connection refused"
      [] m = "getUncleCountByBlockNumber" -> "Error getting uncle count for block by number: connection refused"
      [] m = "getCode" -> "Error getting code at address: connection refused"
      [] m = "sign" -> "Error signing message: connection refused"
      [] m = "signTransaction" -> "Error signing transaction: connection refused"
      [] m = "sendTransaction" -> "Error sending transaction: connection refused"
      [] m = "sendRawTransaction" -> "Error sending raw transaction: connection refused"
      [] m = "call" -> "Error sending call transaction: connection refused"
      [] m = "estimateGas" -> "Error getting gas estimate: connection refused"
      [] m = "getBlockByHash" -> "Error getting block by hash: connection refused"
      [] m = "getBlockByNumber" -> "Error getting block by number: connection refused"
      [] m = "getTransactionByHash" -> "Error getting transaction by hash: connection refused"
      [] m = "getTransactionByBlockHashAndIndex" -> "Error getting transaction by block hash and index: connection refused"
      [] m = "getTransactionByBlockNumberAndIndex" -> "Error getting transaction by block number and index: connection refused"
      [] m = "getTransactionReceipt" -> "Error getting transaction reciept: connection refused"
      [] m = "getUncleByBlockHashAndIndex" -> "Error getting uncle by block hash and index: connection refused"
      [] m = "getUncleByBlockNumberAndIndex" -> "Error getting uncle by block number and index: connection refused"
      [] m = "getCompilers" -> "Error getting compilers: connection refused"
      [] m = "compileSolidity" -> "Error getting compiling solidity code: connection refused"
      [] m = "compileLLL" -> "Error getting compiling LLL code: connection refused"
      [] m = "compileSerpent" -> "Error getting compiling serpent code: connection refused"
      [] m = "newFilter" -> "Error creating filter: connection refused"
      [] m = "newBlockFilter" -> "Error creating block filter: connection refused"
      [] m = "newPendingTransactionFilter" -> "Error creating pending transaction filter: connection refused"
      [] m = "uninstallFilter" -> "Error uninstalling filter: connection refused"
      [] m = "getFilterChanges" -> "Error getting filter changes: connection refused"
      [] m = "getFilterLogs" -> "Error getting filter changes: connection refused"
      [] m = "getLogs" -> "Error getting logs: connection refused"
      [] m = "getWork" -> "Error getting work: connection refused"
      [] m = "submitWork" -> "Error submitting work: connection refused"
      [] m = "submitHashRate" -> "Error submitting hash rate: connection refused"

_DEFAULT_JSON_RPC_VERSION == "2.0"

\* values a caller passes for a positional argument
EthArgValues == {Text("0x01"), Text("0x02")}

\* the argument lists a method may be called with
EthArgs(m) == [1 .. EthArity(m) -> EthArgValues]

\* the keys of a request; a caller may put any of them into rpcOptions
OptionKeys == {"id", "jsonrpc", "method", "params"}

\* rpcOptions: `has` is the set of keys the caller supplied (none of them
\* when rpcOptions is left out), the other fields are their values
RpcOptionValues ==
    [has : SUBSET OptionKeys, id : {"42"}, jsonrpc : {"", "1.0"},
     method : {"eth_accounts"}, params : {<<Text("0xff")>>}]

\* what the response a node gives carries
EthResults == {[result |-> "0x1"]}
EthTransportErrors == {"connection refused"}

\* a value that || does not replace by its right operand
Truthy(x) == x \notin {Undef, ""}

\* rpcOptions?.<key>
OptionOf(o, k) == IF k \in o.has THEN o[k] ELSE Undef

\* { ...rpcOptions, method: .., jsonrpc: .., params: .. }: the keys written
\* after the spread replace those of rpcOptions
SpreadThenSet(o, named) ==
    [k \in OptionKeys |->
        IF k \in DOMAIN named THEN named[k] ELSE OptionOf(o, k)]

\* params: [<the positional arguments the method lists>]
EthParams(m, args) == SubSeq(args, 1, EthParamCount(m))

\* the request a method hands to this._requestManager.send
EthRequest(m, args, o) ==
    SpreadThenSet(o,
        [method |-> EthRpcName(m),
         jsonrpc |-> IF Truthy(OptionOf(o, "jsonrpc"))
                     THEN o.jsonrpc ELSE _DEFAULT_JSON_RPC_VERSION,
         params |-> EthParams(m, args)])

\* a method of Web3Eth is called: it runs up to its await, the request sent
EthInvoke(s, m, args, o) ==
    /\ kind[s] = None
    /\ turn' = "caller"
    /\ kind' = [kind EXCEPT ![s] = "eth"]
    /\ transaction' = [transaction EXCEPT ![s] =
                          [method |-> m, args |-> args, rpcOptions |-> o]]
    /\ rpcLog' = [rpcLog EXCEPT ![s] = Append(@, EthRequest(m, args, o))]
    /\ inflight' = [inflight EXCEPT ![s] = EthRequest(m, args, o)]
    /\ pc' = [pc EXCEPT ![s] = "ethsent"]
    /\ UNCHANGED <<options, _transaction, fresh, listeners, syncListeners,
                   emitted, delivered, settled, uncaught, transactionHash,
                   transactionReceipt, attempts, lastSeen, blockHeight>>

\* send returned: the method returns the response
EthReturn(s, response) ==
    /\ Loop
    /\ kind[s] = "eth" /\ pc[s] = "ethsent"
    /\ settled' = [settled EXCEPT ![s] =
                      [state |-> "resolved", receipt |-> response,
                       error |-> None]]
    /\ inflight' = [inflight EXCEPT ![s] = NoRequest]
    /\ pc' = [pc EXCEPT ![s] = "done"]
    /\ UNCHANGED <<turn, kind, transaction, options, _transaction, fresh,
                   listeners, syncListeners, emitted, delivered, rpcLog,
                   uncaught, transactionHash, transactionReceipt, attempts,
                   lastSeen, blockHeight>>

\* send raised: the catch block throws an Error naming the method's purpose
EthRaise(s, e) ==
    /\ Loop
    /\ kind[s] = "eth" /\ pc[s] = "ethsent"
    /\ settled' = [settled EXCEPT ![s] =
                      [state |-> "rejected", receipt |-> NullReceipt,
                       error |-> EthErrorText(transaction[s].method)]]
    /\ inflight' = [inflight EXCEPT ![s] = NoRequest]
    /\ pc' = [pc EXCEPT ![s] = "done"]
    /\ UNCHANGED <<turn, kind, transaction, options, _transaction, fresh,
                   listeners, syncListeners, emitted, delivered, rpcLog,
                   uncaught, transactionHash, transactionReceipt, attempts,
                   lastSeen, blockHeight>>

NextEth ==
    \/ \E s \in Handles, m \in EthMethods, o \in RpcOptionValues :
          \E args \in EthArgs(m) : EthInvoke(s, m, args, o)
    \/ Yield
    \/ \E s \in Handles, r \in EthResults : EthReturn(s, r)
    \/ \E s \in Handles, e \in EthTransportErrors : EthRaise(s, e)

SpecEth == Init /\ [][NextEth]_vars

\* the values a sequence holds
Range(seq) == { seq[i] : i \in DOMAIN seq }

(***************************************************************************)
(* C23: getSha3(data) requests eth_sha3 for the data it is given: the      *)
(* params of the request it sends contain data.                            *)
(***************************************************************************)
C23_Sha3SendsData ==
    \A s \in Subs :
        (kind[s] = "eth" /\ transaction[s].method = "getSha3") =>
            \A i \in DOMAIN rpcLog[s] :
                /\ rpcLog[s][i].method = "eth_sha3"
                /\ transaction[s].args[1] \in Range(rpcLog[s][i].params)

(***************************************************************************)
(* C24: every invocation of a Web3Eth method sends exactly one request,    *)
(* with the method's RPC name, params taken from the positional arguments  *)
(* only, jsonrpc equal to rpcOptions.jsonrpc when supplied and "2.0"       *)
(* otherwise, and the id of rpcOptions; a failure causes no second request.*)
(***************************************************************************)
C24_RequestFromArguments ==
    \A s \in Subs :
        kind[s] = "eth" =>
            LET m == transaction[s].method
                o == transaction[s].rpcOptions
            IN  /\ Len(rpcLog[s]) = 1
                /\ rpcLog[s][1].method = EthRpcName(m)
                /\ Range(rpcLog[s][1].params) \subseteq Range(transaction[s].args)
                /\ rpcLog[s][1].jsonrpc =
                      IF "jsonrpc" \in o.has THEN o.jsonrpc ELSE "2.0"
                /\ rpcLog[s][1].id = OptionOf(o, "id")

(***************************************************************************)
(* C25: in sendTransaction `sending` is emitted before the broadcast is    *)
(* issued (no broadcast was issued when it is emitted), and its payload is *)
(* the formatted transaction after pricing resolution: the very object     *)
(* handed to the broadcast RPC and carried by `sent`.                      *)
(***************************************************************************)
\* the `sending` and `sent` events of s carry the transaction broadcast
SendingIsBroadcastTransaction(s) ==
    \A i \in DOMAIN emitted[s] :
        emitted[s][i].tag \in {"sending", "sent"} =>
            /\ Len(Broadcasts(s)) = 1
            /\ emitted[s][i].payload = Broadcasts(s)[1].params[1]
            /\ emitted[s][i].payload = _transaction[s]

C25_SendingCarriesBroadcastTransaction ==
    [][\A s \in Subs :
          kind'[s] = "tx" =>
             /\ SendingIsBroadcastTransaction(s)'
             /\ Count(emitted'[s], "sending") > Count(emitted[s], "sending") =>
                   /\ Len(Broadcasts(s)) = 0
                   /\ transactionHash[s] = None]_vars

C25_Witness ==
    \E s \in Subs :
        /\ kind[s] = "tx"
        /\ PricingQueried(s)
        /\ _transaction[s] # formatTransaction(transaction[s])
        /\ {"sending", "sent"} \subseteq TagsOf(emitted[s])

\* the broadcast of s was issued and raised: an error is recorded and no
\* hash ever came back
BroadcastFailed(s) ==
    /\ kind[s] \in {"tx", "signed"}
    /\ Len(Broadcasts(s)) > 0
    /\ transactionHash[s] = None
    /\ uncaught[s] # None

(***************************************************************************)
(* C26: the broadcast RPC is issued at most once per submission, and a     *)
(* broadcast failure is terminal: after it there is no second broadcast,   *)
(* no receipt query, and no sent, transactionHash, receipt or confirmation *)
(* event.                                                                  *)
(***************************************************************************)
C26_BroadcastOnceFailureTerminal ==
    \A s \in Subs :
        /\ Len(Broadcasts(s)) <= 1
        /\ BroadcastFailed(s) =>
              /\ pc[s] = "crashed"
              /\ Len(ReceiptQueries(s)) = 0
              /\ TagsOf(emitted[s]) \subseteq {"sending"}
              /\ LastMethod(s) \in BroadcastMethods

C26_Witness ==
    \E s \in Subs :
        /\ BroadcastFailed(s)
        /\ Tags \subseteq listeners[s]
        /\ blockHeight = 0
        /\ "sending" \in TagsOf(delivered[s])

(***************************************************************************)
(* C27: sendSignedTransaction never queries pricing; the one parameter of  *)
(* its broadcast request is the signed bytes it was given, unmodified, and *)
(* the payloads of its `sending` and `sent` events are those same bytes.   *)
(***************************************************************************)
C27_SignedBytesUntouched ==
    \A s \in Subs :
        kind[s] = "signed" =>
            /\ transaction[s] \in SignedInputs
            /\ ~PricingQueried(s)
            /\ \A i \in DOMAIN rpcLog[s] :
                  rpcLog[s][i].method \in BroadcastMethods =>
                      /\ rpcLog[s][i].method = "eth_sendRawTransaction"
                      /\ rpcLog[s][i].params = <<transaction[s]>>
            /\ \A i \in DOMAIN emitted[s] :
                  emitted[s][i].tag \in {"sending", "sent"} =>
                      emitted[s][i].payload = transaction[s]

C27_Witness ==
    \E s \in Subs :
        /\ kind[s] = "signed"
        /\ Len(Broadcasts(s)) = 1
        /\ {"sending", "sent"} \subseteq TagsOf(emitted[s])
        /\ Mined(s)

(***************************************************************************)
(* C28: in both submission paths `sent` is emitted before                  *)
(* `transactionHash`, both only after the broadcast has returned a hash;   *)
(* the payload of `transactionHash` is the hash the broadcast returned,    *)
(* and every receipt query of the submission asks for that hash.           *)
(***************************************************************************)
C28_SentThenHashOfBroadcast ==
    \A s \in Subs :
        kind[s] \in {"tx", "signed"} =>
            /\ \A i, j \in DOMAIN emitted[s] :
                  (emitted[s][i].tag = "sent"
                     /\ emitted[s][j].tag = "transactionHash") => i < j
            /\ \A i \in DOMAIN emitted[s] :
                  emitted[s][i].tag \in {"sent", "transactionHash"} =>
                      /\ transactionHash[s] # None
                      /\ Len(Broadcasts(s)) = 1
            /\ \A i \in DOMAIN emitted[s] :
                  emitted[s][i].tag = "transactionHash" =>
                      emitted[s][i].payload = Text(transactionHash[s])
            /\ \A i \in DOMAIN rpcLog[s] :
                  rpcLog[s][i].method = "eth_getTransactionReceipt" =>
                      /\ transactionHash[s] # None
                      /\ rpcLog[s][i].params = <<Text(transactionHash[s])>>

C28_Witness ==
    \E s \in Subs :
        /\ kind[s] = "tx"
        /\ {"sent", "transactionHash"} \subseteq TagsOf(emitted[s])
        /\ Len(ReceiptQueries(s)) >= 2

(***************************************************************************)
(* C29: the first receipt query is issued in the step that emits the hash  *)
(* events, and the receipt poller is entered only when that query answered *)
(* null: a first query that answers a receipt is the only receipt query of *)
(* the submission, and the poller never runs.                              *)
(***************************************************************************)
C29_FirstQueryThenPollerOnNull ==
    \A s \in Subs :
        kind[s] \in {"tx", "signed"} =>
            /\ Len(ReceiptQueries(s)) =
                  (IF transactionHash[s] # None THEN 1 ELSE 0) + attempts[s]
            /\ pc[s] = "receipt" =>
                  /\ inflight[s].method = "eth_getTransactionReceipt"
                  /\ LastMethod(s) = "eth_getTransactionReceipt"
            /\ pc[s] \in {"polling", "pollquery"} =>
                  /\ transactionReceipt[s] = NullReceipt
                  /\ ~Mined(s)
                  /\ "receipt" \notin TagsOf(emitted[s])
            /\ (transactionReceipt[s] # NullReceipt /\ attempts[s] = 0) =>
                  Len(ReceiptQueries(s)) = 1

C29_Witness ==
    \E s \in Subs :
        /\ kind[s] = "signed"
        /\ transactionReceipt[s] # NullReceipt
        /\ attempts[s] = 0
        /\ Len(ReceiptQueries(s)) = 1
        /\ pc[s] = "watching"

\* the confirmation watcher of s has been started
WatcherStarted(s) ==
    \/ pc[s] \in {"watching", "watchfailed", "cancelled"}
    \/ "eth_subscribe" \in Methods(rpcLog[s])

(***************************************************************************)
(* C30: on success the `receipt` event is emitted before the terminal      *)
(* result resolves, so whenever the result is resolved the event has been  *)
(* emitted, once, with the resolved receipt as its payload; and the        *)
(* confirmation watcher is started only after both.                        *)
(***************************************************************************)
C30_ReceiptThenResolveThenWatcher ==
    \A s \in Subs :
        kind[s] \in {"tx", "signed"} =>
            /\ Mined(s) =>
                  /\ Count(emitted[s], "receipt") = 1
                  /\ settled[s].receipt # NullReceipt
                  /\ \A i \in DOMAIN emitted[s] :
                        emitted[s][i].tag = "receipt" =>
                            emitted[s][i].payload = settled[s].receipt
            /\ WatcherStarted(s) =>
                  /\ Mined(s)
                  /\ "receipt" \in TagsOf(emitted[s])
                  /\ \A i, j \in DOMAIN emitted[s] :
                        (emitted[s][i].tag = "receipt"
                           /\ emitted[s][j].tag \in {"confirmation", "error"})
                        => i < j

C30_Witness ==
    \E s \in Subs :
        /\ kind[s] = "tx"
        /\ Mined(s)
        /\ WatcherStarted(s)
        /\ "receipt" \in TagsOf(delivered[s])
        /\ "confirmation" \in TagsOf(delivered[s])

====
